---- MODULE Spec2Model ----
(***************************************************************************)
(* Model of the Bluesky desktop shell (src/preload.js): the host's window  *)
(* lifecycle coordinator and the page enhancement controller that the      *)
(* host injects into the hosted page.                                      *)
(*                                                                         *)
(* Specifications given over the same variables:                           *)
(*   Spec       the host: window session, periodic tasks, asynchronous     *)
(*              handlers and the request channel to the page;              *)
(*   PageSpec   the page context: the injected script, its listeners, DOM  *)
(*              nodes and timers, and the input events of the page;        *)
(*   PolicySpec the URL policy and the error sanitizer, applied to inputs  *)
(*              drawn from bounded sets;                                   *)
(*   FatalSpec  the host together with the process-level fault handlers,   *)
(*              with the fairness of timers and promise continuations;     *)
(*   AppSpec    the application lifecycle from the evaluation of the main  *)
(*              module: listener registry, tray, toggle, quit, activate;   *)
(*   RefreshSpec the page reloaded from the tray menu while its            *)
(*              load-finished signals are handled.                         *)
(***************************************************************************)
EXTENDS Integers, Sequences, FiniteSets, TLC

VARIABLES
    page,          \* the page context (document, listeners, timers, injected state)
    mainWindow,    \* the global window reference: "null" or "window"
    session,       \* the ad hoc fields of the window object (_isLoading, ...)
    cacheTimers,   \* live setInterval(clearCache) timers of the host
    memoryTimers,  \* live memory-monitor setInterval timers of the host
    resetTimers,   \* pending setTimeout callbacks that reset _isLoading
    willQuit,      \* the global willQuit flag
    renderer,      \* "ok", "unresponsive" or "gone"
    inflight,      \* executeJavaScript requests sent to the page, not yet settled
    replies,       \* settled requests whose continuation has not yet run in the host
    history,       \* bookkeeping of the load-finished signals handled so far
    proc,          \* the main process: exit status, tray, app listeners, fault handling
    call           \* a call of a URL-policy or error-sanitizing routine and its outcome

vars == <<page, mainWindow, session, cacheTimers, memoryTimers,
          resetTimers, willQuit, renderer, inflight, replies, history, proc, call>>

hostVars == <<mainWindow, session, cacheTimers, memoryTimers, resetTimers,
              willQuit, renderer, inflight, replies, history, proc, call>>

(***************************************************************************)
(* Bounds of the model.                                                    *)
(***************************************************************************)
MaxAcc == 260          \* wheel input stops once the accumulator would pass this
MaxInflight == 2       \* requests to the page that may be outstanding at once
MaxClickReloads == 1   \* untracked reload timers armed by refresh-button clicks
MaxCycles == 2         \* consecutive load cycles that are counted
MaxFaults == 1         \* uncaught exceptions and unhandled rejections delivered

Min(a, b) == IF a < b THEN a ELSE b
Max(a, b) == IF a > b THEN a ELSE b
Abs(x) == IF x < 0 THEN 0 - x ELSE x

(***************************************************************************)
(* The URL policy.  A URL string is modelled by its parts as written:      *)
(* scheme (the text before the first ':', "" when there is none), whether  *)
(* "//" follows, user info, host, port, and for blob: URLs the scheme of   *)
(* the URL that the path holds.  null and undefined are values of their    *)
(* own kind; new URL() converts them to the words "null" and "undefined".  *)
(***************************************************************************)
UrlString(scheme, slashes, userinfo, host, port, inner) ==
    [kind |-> "string", scheme |-> scheme, slashes |-> slashes,
     userinfo |-> userinfo, host |-> host, port |-> port, inner |-> inner]

\* A string without any "scheme:" prefix ('', 'not-a-url', 'null', 'undefined').
BareWord == UrlString("", FALSE, "", "", "", "")

NullUrl == [BareWord EXCEPT !.kind = "null"]
UndefinedUrl == [BareWord EXCEPT !.kind = "undefined"]

\* String(value), as new URL() applies it to its argument.
ToUrlString(u) == IF u.kind = "string" THEN u ELSE BareWord

\* ASCII lower-casing of the spellings that occur in the inputs.
Lower(t) ==
    CASE t = "HTTPS" -> "https"
      [] t = "Http" -> "http"
      [] t = "JavaScript" -> "javascript"
      [] t = "BSKY.APP" -> "bsky.app"
      [] OTHER -> t

SpecialSchemes == {"http", "https", "ftp", "ws", "wss", "file"}

DefaultPort(scheme) ==
    CASE scheme = "https" -> "443"
      [] scheme = "wss" -> "443"
      [] scheme = "http" -> "80"
      [] scheme = "ws" -> "80"
      [] scheme = "ftp" -> "21"
      [] OTHER -> ""

ValidPorts == {"", "21", "80", "443", "3000", "8443"}
ValidHost(h) == h # "[invalid-ipv6]"

ParseFailure == [ok |-> FALSE, protocol |-> "", hostname |-> "", port |-> "", origin |-> ""]

\* The origin of scheme://host:port for the schemes that have a tuple origin.
TupleOrigin(scheme, host, port) ==
    scheme \o "://" \o host \o (IF port = "" THEN "" ELSE ":" \o port)

\* new URL(text): the parsed URL, or ParseFailure where the constructor throws.
\* The scheme and the host of a special scheme are lower-cased, a default port
\* is dropped, user info is not part of the host, and the origin of a blob: URL
\* is that of the http(s) URL in its path.
ParseUrl(u) ==
    LET t == ToUrlString(u)
        scheme == Lower(t.scheme)
        special == scheme \in SpecialSchemes
        authority == special \/ t.slashes
        host == IF special THEN Lower(t.host) ELSE t.host
        port == IF t.port = DefaultPort(scheme) THEN "" ELSE t.port
    IN IF t.scheme = "" THEN ParseFailure
       ELSE IF authority /\ ~ValidHost(t.host) THEN ParseFailure
       ELSE IF authority /\ t.port \notin ValidPorts THEN ParseFailure
       ELSE IF special /\ scheme # "file" /\ t.host = "" THEN ParseFailure
       ELSE [ok |-> TRUE,
             protocol |-> scheme \o ":",
             hostname |-> IF authority THEN host ELSE "",
             port |-> IF authority THEN port ELSE "",
             origin |->
                IF special /\ scheme # "file" THEN TupleOrigin(scheme, host, port)
                ELSE IF scheme = "blob" /\ t.inner \in {"http", "https"}
                        /\ ~t.slashes /\ t.host # "" /\ ValidHost(t.host)
                        /\ t.port \in ValidPorts
                     THEN TupleOrigin(t.inner, Lower(t.host),
                                      IF t.port = DefaultPort(t.inner) THEN "" ELSE t.port)
                ELSE "null"]

ALLOWED_PROTOCOLS == {"https:", "mailto:", "tel:"}

\* isSafeUrl with the scheme compared as written, not as parsed.
isSafeUrlUnparsed(urlString) ==
    (urlString.scheme \o ":") \in ALLOWED_PROTOCOLS

isSafeUrl(urlString) ==
    LET url == ParseUrl(urlString)
    IN IF url.ok THEN url.protocol \in ALLOWED_PROTOCOLS ELSE FALSE

HomeOrigin == "https://bsky.app"

(***************************************************************************)
(* The error sanitizer.  A JavaScript value is modelled by its kind and,   *)
(* for objects that carry them, its name, message and stack properties.    *)
(***************************************************************************)
Value(kind, name, message, stack) ==
    [kind |-> kind, name |-> name, message |-> message, stack |-> stack]

\* error instanceof Error: Error objects and objects of its subclasses.
InstanceOfError(v) == v.kind = "Error"

UnknownError ==
    [type |-> "string", text |-> "Unknown error", name |-> "", message |-> "", stack |-> ""]

\* sanitizeError that scrubs the message instead of replacing it.
sanitizeErrorKeepsMessage(error) ==
    IF InstanceOfError(error)
    THEN [type |-> "object", text |-> "", name |-> error.name,
          message |-> error.message, stack |-> "null"]
    ELSE UnknownError

\* sanitizeError that reads the name of whatever it is given.
sanitizeErrorAnyObject(error) ==
    IF error.kind \in {"Error", "object"}
    THEN [type |-> "object", text |-> "", name |-> error.name,
          message |-> "Application error occurred", stack |-> "null"]
    ELSE UnknownError

sanitizeError(error) ==
    IF InstanceOfError(error)
    THEN [type |-> "object", text |-> "", name |-> error.name,
          message |-> "Application error occurred", stack |-> "null"]
    ELSE UnknownError

(***************************************************************************)
(* The page context.                                                       *)
(***************************************************************************)
TimeoutKeys == {"floatAnimation", "indicatorTimeout", "idleCheck", "mouseHide", "scrollShow"}
ListenerKinds == {"scroll", "wheel", "mousemove", "scrollShow"}
NodeIds == {"floating-pin-btn", "floating-refresh-btn", "scroll-refresh-indicator",
            "refresh-spinner-style", "floating-btn-style"}

\* ScrollRefreshManager.data.threshold
threshold == 0 - 150

\* The delay of the wheel-gesture reload timer, setTimeout(..., 500)
ReloadDelayMs == 500

\* A document right after it has loaded: nothing of the script exists in it.
FreshPage ==
    [ declared       |-> FALSE,   \* the script's top-level const binding exists
      cleanupFn      |-> FALSE,   \* window.scrollRefreshCleanup is defined
      intervalGlobal |-> FALSE,   \* window.scrollRefreshInterval is defined
      manager        |-> FALSE,   \* the fields of ScrollRefreshManager are populated
      isAtTop        |-> FALSE,   \* data.isAtTop
      acc            |-> 0,       \* data.wheelDeltaAccumulator
      handlerRefs    |-> {},      \* the non-null entries of manager.handlers
      elementRefs    |-> {},      \* the non-null entries of manager.elements
      timeoutRefs    |-> [k \in TimeoutKeys |-> "null"],  \* manager.timeouts
      idleRef        |-> "null",  \* manager.intervals.idle
      listeners      |-> [k \in ListenerKinds |-> 0],     \* registered on window/document
      nodes          |-> [n \in NodeIds |-> 0],           \* nodes in the document
      timers         |-> [k \in TimeoutKeys |-> 0],       \* live setTimeout timers
      idleTimers     |-> 0,       \* live setInterval timers of the idle tick
      clickReloads   |-> 0,       \* live timers armed by the refresh button's click
      indicatorShown |-> FALSE,   \* the indicator is at opacity 1
      reloadDelay    |-> 0,       \* delay of the last armed gesture reload timer
      scrollY        |-> 0,       \* window.scrollY
      installs       |-> 0,       \* registries created in this context
      downAfterArm   |-> FALSE,   \* a downward wheel event arrived while a reload was pending
      installEvals   |-> 0,       \* install scripts evaluated in this context (up to 2)
      teardownsInRow |-> 0,       \* teardown scripts evaluated in a row (counted up to 2)
      teardownFailed |-> FALSE,   \* a teardown script raised an error
      lastWheel      |-> "none" ] \* the last wheel event since the last idle tick:
                                  \* "valid", "rejected", or "none" when there was none

\* clearTimeout(manager.timeouts[k]): cancels the timer the entry refers to, if it is
\* still pending; the entry itself keeps its (now stale) value.
clearTimeout(p, k) ==
    IF p.timeoutRefs[k] = "live"
    THEN [p EXCEPT !.timers[k] = @ - 1, !.timeoutRefs[k] = "stale"]
    ELSE p

\* manager.timeouts[k] = setTimeout(...): a new pending timer, referred to by the entry.
setTimeout(p, k) ==
    [p EXCEPT !.timers[k] = @ + 1, !.timeoutRefs[k] = "live"]

createRefreshIndicator(p) ==
    IF "indicator" \in p.elementRefs THEN p
    ELSE LET p1 == [p EXCEPT !.nodes["scroll-refresh-indicator"] = @ + 1,
                            !.elementRefs = @ \cup {"indicator"}]
         IN IF p1.nodes["refresh-spinner-style"] = 0
            THEN [p1 EXCEPT !.nodes["refresh-spinner-style"] = 1,
                            !.elementRefs = @ \cup {"spinnerStyle"}]
            ELSE p1

showRefreshIndicator(p) ==
    LET p1 == createRefreshIndicator(p)
    IN IF "indicator" \in p1.elementRefs THEN [p1 EXCEPT !.indicatorShown = TRUE] ELSE p1

hideRefreshIndicator(p) ==
    IF "indicator" \in p.elementRefs THEN [p EXCEPT !.indicatorShown = FALSE] ELSE p

\* The scroll listener; p.scrollY is the position the page has scrolled to.
handleScroll(p) ==
    LET p1 == [p EXCEPT !.isAtTop = (p.scrollY <= 10)]
    IN IF ~p1.isAtTop
       THEN hideRefreshIndicator([p1 EXCEPT !.acc = 0])
       ELSE p1

\* A wheel event: finite is FALSE for an event whose deltaY is missing, not a number
\* or not finite.
WheelEvent(d) == [finite |-> TRUE, deltaY |-> d]
MalformedWheelEvent == [finite |-> FALSE, deltaY |-> 0]

\* armReload without the clearTimeout of the timer armed before.
armReloadNoClear(p) ==
    [setTimeout(showRefreshIndicator(p), "indicatorTimeout") EXCEPT !.reloadDelay = ReloadDelayMs]

\* The branch of handleWheel that arms the reload once the threshold is reached.
armReload(p) ==
    LET p1 == showRefreshIndicator(p)
        p2 == IF p1.timeoutRefs["indicatorTimeout"] # "null"
              THEN clearTimeout(p1, "indicatorTimeout") ELSE p1
    IN [setTimeout(p2, "indicatorTimeout") EXCEPT !.reloadDelay = ReloadDelayMs]

\* The branch of handleWheel taken by a wheel event that is not upward.
cancelReload(p) ==
    LET p1 == hideRefreshIndicator([p EXCEPT !.acc = 0])
    IN IF p1.timeoutRefs["indicatorTimeout"] # "null"
       THEN [clearTimeout(p1, "indicatorTimeout") EXCEPT !.timeoutRefs["indicatorTimeout"] = "null"]
       ELSE p1

\* handleWheel without the limit on the magnitude of deltaY.
handleWheelNoLimit(p, event) ==
    IF ~event.finite THEN p
    ELSE IF ~p.isAtTop THEN p
    ELSE IF event.deltaY < 0
         THEN LET p1 == [p EXCEPT !.acc = @ + Abs(event.deltaY)]
              IN IF p1.acc >= Abs(threshold) THEN armReload(p1) ELSE p1
         ELSE cancelReload(p)

handleWheel(p, event) ==
    IF ~event.finite THEN p
    ELSE IF Abs(event.deltaY) > 1000 THEN p
    ELSE IF ~p.isAtTop THEN p
    ELSE IF event.deltaY < 0
         THEN LET p1 == [p EXCEPT !.acc = @ + Abs(event.deltaY)]
              IN IF p1.acc >= Abs(threshold) THEN armReload(p1) ELSE p1
         ELSE cancelReload(p)

createFloatingPinButton(p) ==
    IF p.nodes["floating-pin-btn"] > 0 THEN p
    ELSE [p EXCEPT !.nodes["floating-pin-btn"] = @ + 1,
                   !.handlerRefs = @ \cup {"pinMouseEnter", "pinMouseLeave", "pinClick"},
                   !.elementRefs = @ \cup {"pinButton"}]

createFloatingRefreshButton(p) ==
    IF p.nodes["floating-refresh-btn"] > 0 THEN p
    ELSE LET p1 == [p EXCEPT !.nodes["floating-refresh-btn"] = @ + 1,
                            !.elementRefs = @ \cup {"floatingBtn"}]
             p2 == IF p1.nodes["floating-btn-style"] = 0
                   THEN [p1 EXCEPT !.nodes["floating-btn-style"] = 1,
                                   !.elementRefs = @ \cup {"btnStyle"}]
                   ELSE p1
             p3 == setTimeout(p2, "floatAnimation")
         IN [p3 EXCEPT !.handlerRefs = @ \cup {"handleMouseMove", "handleScrollShow"},
                       !.listeners["mousemove"] = @ + 1,
                       !.listeners["scrollShow"] = @ + 1]

\* The mousemove listener of the refresh button; clientX of the event.
handleMouseMove(p, clientX) ==
    IF clientX < 0 \/ clientX > 10000 THEN p
    ELSE LET p1 == IF p.timeoutRefs["mouseHide"] # "null"
                   THEN clearTimeout(p, "mouseHide") ELSE p
         IN IF clientX < 100 THEN p1
            ELSE IF clientX > 150 THEN setTimeout(p1, "mouseHide")
            ELSE p1

\* The scroll listener of the refresh button.
handleScrollShow(p) ==
    LET p1 == IF p.timeoutRefs["scrollShow"] # "null"
              THEN clearTimeout(p, "scrollShow") ELSE p
    IN setTimeout(p1, "scrollShow")

\* The callback of the idle interval. The product with 0.9 is kept in whole units
\* (rounded down).
\* The idle tick decaying only while a reload is pending (the test of
\* timeouts.indicatorTimeout without its negation).
idleTickWhilePending(p) ==
    IF p.acc > 0 /\ p.timeoutRefs["indicatorTimeout"] # "null"
    THEN LET p1 == [p EXCEPT !.acc = (@ * 9) \div 10]
         IN IF p1.acc < 10 THEN hideRefreshIndicator([p1 EXCEPT !.acc = 0]) ELSE p1
    ELSE p

idleTick(p) ==
    IF p.acc > 0 /\ p.timeoutRefs["indicatorTimeout"] = "null"
    THEN LET p1 == [p EXCEPT !.acc = (@ * 9) \div 10]
         IN IF p1.acc < 10 THEN hideRefreshIndicator([p1 EXCEPT !.acc = 0]) ELSE p1
    ELSE p

\* The listener kind each entry of manager.handlers is registered as.
ListenerOf(h) ==
    CASE h = "handleScroll" -> "scroll"
      [] h = "handleWheel" -> "wheel"
      [] h = "handleMouseMove" -> "mousemove"
      [] h = "handleScrollShow" -> "scrollShow"

\* The node each entry of manager.elements refers to.
NodeOf(e) ==
    CASE e = "pinButton" -> "floating-pin-btn"
      [] e = "floatingBtn" -> "floating-refresh-btn"
      [] e = "indicator" -> "scroll-refresh-indicator"
      [] e = "spinnerStyle" -> "refresh-spinner-style"
      [] e = "btnStyle" -> "floating-btn-style"

GlobalHandlers == {"handleScroll", "handleWheel", "handleMouseMove", "handleScrollShow"}

\* cleanup, first part: clearInterval(manager.intervals.idle)
clearIdleInterval(p) ==
    IF p.idleRef # "null"
    THEN [p EXCEPT !.idleTimers = IF p.idleRef = "live" THEN @ - 1 ELSE @,
                   !.idleRef = "null"]
    ELSE p

\* clearAllTimeouts that nulls the entries without cancelling the timers.
nullTimeoutsOnly(p) ==
    [p EXCEPT !.timeoutRefs = [k \in TimeoutKeys |-> "null"]]

\* cleanup, second part: Object.keys(manager.timeouts).forEach(clearTimeout, null)
clearAllTimeouts(p) ==
    [p EXCEPT !.timers = [k \in TimeoutKeys |->
                            IF p.timeoutRefs[k] = "live" THEN p.timers[k] - 1 ELSE p.timers[k]],
              !.timeoutRefs = [k \in TimeoutKeys |-> "null"]]

\* cleanup, third part: removeEventListener for each handler the manager holds
removeListeners(p) ==
    [p EXCEPT !.listeners = [k \in ListenerKinds |->
        IF \E h \in p.handlerRefs \cap GlobalHandlers : ListenerOf(h) = k
        THEN Max(0, p.listeners[k] - 1) ELSE p.listeners[k]]]

\* cleanup, fourth part: remove() each node the manager holds, and null the entry
removeElements(p) ==
    LET removed == [n \in NodeIds |->
                      IF \E e \in p.elementRefs : NodeOf(e) = n
                      THEN Max(0, p.nodes[n] - 1) ELSE p.nodes[n]]
    IN [p EXCEPT !.nodes = removed,
                 !.elementRefs = {},
                 !.indicatorShown = @ /\ removed["scroll-refresh-indicator"] > 0]

\* clearRegistry without 'delete window.scrollRefreshCleanup'.
clearRegistryKeepGlobal(p) ==
    [p EXCEPT !.intervalGlobal = FALSE, !.manager = FALSE,
              !.handlerRefs = {}, !.elementRefs = {},
              !.timeoutRefs = [k \in TimeoutKeys |-> "null"], !.idleRef = "null",
              !.isAtTop = FALSE, !.acc = 0]

\* cleanup, last part: delete the globals and null every field of the manager
clearRegistry(p) ==
    [p EXCEPT !.cleanupFn = FALSE, !.intervalGlobal = FALSE, !.manager = FALSE,
              !.handlerRefs = {}, !.elementRefs = {},
              !.timeoutRefs = [k \in TimeoutKeys |-> "null"], !.idleRef = "null",
              !.isAtTop = FALSE, !.acc = 0]

\* window.scrollRefreshCleanup. It reads manager.intervals first, which raises a
\* TypeError once the manager's fields are null.
scrollRefreshCleanup(p) ==
    IF ~p.manager THEN p
    ELSE clearRegistry(removeElements(removeListeners(clearAllTimeouts(clearIdleInterval(p)))))

\* The script the host evaluates to tear the page down:
\* 'if(window.scrollRefreshCleanup) window.scrollRefreshCleanup()'
TeardownScript(p) ==
    IF p.cleanupFn THEN scrollRefreshCleanup(p) ELSE p

TeardownResult(p) ==
    IF p.cleanupFn /\ ~p.manager THEN "rejected" ELSE "resolved"

\* The statements of the injected install script, once the script has been instantiated.
installBody(p) ==
    LET p0 == IF p.cleanupFn THEN scrollRefreshCleanup(p) ELSE p
        p1 == [p0 EXCEPT !.declared = TRUE, !.manager = TRUE,
                         !.isAtTop = TRUE, !.acc = 0,
                         !.handlerRefs = {"handleScroll", "handleWheel"},
                         !.elementRefs = {},
                         !.timeoutRefs = [k \in TimeoutKeys |-> "null"],
                         !.idleRef = "null",
                         !.installs = @ + 1]
        p2 == createFloatingRefreshButton(createFloatingPinButton(p1))
        p3 == [p2 EXCEPT !.listeners["scroll"] = @ + 1, !.listeners["wheel"] = @ + 1]
        p4 == [p3 EXCEPT !.idleRef = "live", !.idleTimers = @ + 1]
    IN [p4 EXCEPT !.intervalGlobal = TRUE, !.cleanupFn = TRUE]

\* The injected install script. It declares ScrollRefreshManager with a top-level
\* const: evaluated in a context where that binding exists already, the script is
\* refused as a whole (SyntaxError) and none of its statements runs.
InstallScript(p) ==
    IF p.declared THEN p ELSE installBody(p)

InstallResult(p) ==
    IF p.declared THEN "rejected" ELSE "resolved"

(***************************************************************************)
(* Events of the page context.                                             *)
(***************************************************************************)
WheelDeltas == {0 - 2000, 0 - 100, 0 - 60, 50, 2000}
WheelEvents == {WheelEvent(d) : d \in WheelDeltas} \cup {MalformedWheelEvent}
ScrollPositions == {0, 200}
ClientXs == {50, 120, 200}

\* The page after it has evaluated the install script.
AfterInstall(p) ==
    [InstallScript(p) EXCEPT !.teardownsInRow = 0, !.installEvals = Min(@ + 1, 2)]

\* The page after it has evaluated the host's teardown script; the bookkeeping
\* fields count the evaluations in a row and keep whether one raised an error.
AfterTeardown(p) ==
    [TeardownScript(p) EXCEPT !.teardownsInRow = Min(@ + 1, 2),
                              !.teardownFailed = @ \/ TeardownResult(p) = "rejected"]

\* The page evaluates the install script.
EvalInstall ==
    /\ page' = AfterInstall(page)
    /\ UNCHANGED hostVars

\* The page evaluates the host's teardown script.
EvalTeardown ==
    /\ page' = AfterTeardown(page)
    /\ UNCHANGED hostVars

\* A wheel event that handleWheel rejects: deltaY missing, not a number, not
\* finite, or above 1000 in magnitude.
IsRejected(event) == ~event.finite \/ Abs(event.deltaY) > 1000

\* A valid downward wheel event: finite, within the accepted range, not upward.
IsDownward(event) == event.finite /\ Abs(event.deltaY) <= 1000 /\ event.deltaY > 0

\* The wheel event is one that handleWheel answers by arming the reload.
ArmsReload(p, event) ==
    /\ event.finite /\ Abs(event.deltaY) <= 1000 /\ event.deltaY < 0
    /\ p.isAtTop
    /\ p.acc + Abs(event.deltaY) >= Abs(threshold)

\* A wheel event is dispatched to the registered wheel listener.
Wheel(event) ==
    /\ page.listeners["wheel"] > 0
    /\ page.manager
    /\ handleWheel(page, event).acc <= MaxAcc
    /\ page' = [handleWheel(page, event) EXCEPT
                   !.downAfterArm =
                       IF ArmsReload(page, event) THEN FALSE
                       ELSE IF IsDownward(event) /\ page.timers["indicatorTimeout"] > 0 THEN TRUE
                       ELSE @,
                   !.lastWheel = IF IsRejected(event) THEN "rejected" ELSE "valid"]
    /\ UNCHANGED hostVars

\* The page scrolls to position y; the scroll listeners registered run.
Scroll(y) ==
    /\ y # page.scrollY
    /\ LET p1 == [page EXCEPT !.scrollY = y]
           p2 == IF p1.listeners["scrollShow"] > 0 /\ p1.manager
                 THEN handleScrollShow(p1) ELSE p1
           p3 == IF p2.listeners["scroll"] > 0 /\ p2.manager
                 THEN handleScroll(p2) ELSE p2
       IN page' = p3
    /\ UNCHANGED hostVars

\* The cursor moves; the mousemove listener runs.
MouseMove(x) ==
    /\ page.listeners["mousemove"] > 0
    /\ page.manager
    /\ page' = handleMouseMove(page, x)
    /\ UNCHANGED hostVars

\* One of the refresh button's style timers fires (it only restyles the button).
StyleTimerFires(k) ==
    /\ k \in {"floatAnimation", "mouseHide", "scrollShow"}
    /\ page.timers[k] > 0
    /\ page' = [page EXCEPT !.timers[k] = @ - 1,
                            !.timeoutRefs[k] = IF @ = "live" THEN "stale" ELSE @]
    /\ UNCHANGED hostVars

\* The idle interval ticks.
IdleTick ==
    /\ page.idleTimers > 0
    /\ page.manager
    /\ page' = [idleTick(page) EXCEPT !.lastWheel = "none"]
    /\ UNCHANGED hostVars

\* A click on the floating refresh button: setTimeout(() => reload(), 500), untracked.
RefreshClick ==
    /\ page.nodes["floating-refresh-btn"] > 0
    /\ page.clickReloads < MaxClickReloads
    /\ page' = [page EXCEPT !.clickReloads = @ + 1]
    /\ UNCHANGED hostVars

\* The wheel-gesture reload timer fires: window.location.reload() replaces the document.
GestureReloadFires ==
    /\ page.timers["indicatorTimeout"] > 0
    /\ page' = FreshPage
    /\ UNCHANGED hostVars

\* The refresh button's reload timer fires.
ClickReloadFires ==
    /\ page.clickReloads > 0
    /\ page' = FreshPage
    /\ UNCHANGED hostVars

(***************************************************************************)
(* The host.                                                               *)
(***************************************************************************)
\* The fields the handlers keep on the window object, and its visibility.
NoSession ==
    [ isLoading |-> FALSE,            \* mainWindow._isLoading
      loadingStartTime |-> FALSE,     \* mainWindow._loadingStartTime is set
      cacheInterval |-> 0,            \* mainWindow._cacheInterval (0: null)
      memoryMonitorInterval |-> 0,    \* mainWindow._memoryMonitorInterval (0: null)
      visible |-> FALSE,              \* mainWindow.isVisible()
      alwaysOnTop |-> FALSE,          \* mainWindow.isAlwaysOnTop()
      lastSent |-> <<>>,              \* the last 'always-on-top-changed' message sent
      readyToShow |-> FALSE ]         \* the once('ready-to-show') listener is pending

\* cycles: load-finished signals processed in a row since the periodic tasks were
\* last cancelled; installsThisLoad: install requests sent since the loading flag
\* was last set; droppedThisLoad: a signal was dropped since then; hiddenByClose:
\* the window was last hidden by the close handler and neither shown nor reloaded
\* since; refreshedWhileLoading: Refresh in the tray menu reloaded the page
\* while the loading flag was set, and the flag has not been cleared since.
NoHistory == [cycles |-> 0, installsThisLoad |-> 0, droppedThisLoad |-> FALSE,
              hiddenByClose |-> FALSE, refreshedWhileLoading |-> FALSE]

Request(script, from) == [script |-> script, from |-> from]
\* A settled request.
Reply(from, result) == [from |-> from, result |-> result]

\* Requests whose promise has not been consumed by the host yet.
Outstanding == Len(inflight) + Len(replies)

\* The handle setInterval returns: one that no live timer of the kind has.
FreshHandle(live) == CHOOSE h \in 1..(Cardinality(live) + 1) : h \notin live

\* A clearInterval that cancels nothing.
clearIntervalForgotten(live, handle) == live

\* clearInterval(handle)
clearInterval(live, handle) == live \ {handle}

\* No routine has been called: only the input is there.
NoCall(input) ==
    [input |-> input, routine |-> "none", result |-> FALSE, threw |-> FALSE,
     opened |-> FALSE, prevented |-> FALSE, action |-> "none", record |-> UnknownError]

\* The process-wide events the program subscribes to with addAppListener, in the
\* order of the registrations.
AppEvents == <<"window-all-closed", "activate", "before-quit",
               "uncaughtException", "unhandledRejection">>

\* The handler passed by the n-th registration.
Listener(n) == [event |-> AppEvents[n], listener |-> n]

\* process.platform
Platforms == {"darwin", "linux"}

\* addAppListener with the registry forgotten: app.on alone.
addAppListenerUnrecorded(pr, l) ==
    [pr EXCEPT !.subscribed = @ \cup {l}, !.registered = @ + 1]

\* addAppListener(event, listener): app.on, then the pair is pushed on the registry.
addAppListener(pr, l) ==
    [pr EXCEPT !.subscribed = @ \cup {l},
               !.appEventListeners = Append(@, l),
               !.registered = @ + 1]

\* app holds a handler for the event.
Subscribed(pr, event) == \E l \in pr.subscribed : l.event = event

\* The main process while the main module is being evaluated, before any of its
\* registrations.  subscribed is the set of handlers app holds, appEventListeners
\* the registry, unsubscribed the app.off calls made so far, registered the number
\* of top-level registrations executed.  awaiting counts the calls of
\* performGracefulCleanup suspended at their await, timers their pending 3 s
\* timers; uncaught and rejections count the faults delivered to the two fault
\* handlers, logged is what the last of them logged.
LoadingProcess(platform) ==
    [status |-> "loading", code |-> 0, platform |-> platform, tray |-> "null",
     subscribed |-> {}, appEventListeners |-> <<>>, unsubscribed |-> <<>>,
     registered |-> 0,
     awaiting |-> 0, timers |-> 0, uncaught |-> 0, rejections |-> 0,
     logged |-> UnknownError]

\* The main process after app.whenReady(): running, the tray created, the app
\* listeners registered through addAppListener.
StartedProcess ==
    [LoadingProcess("linux") EXCEPT
        !.status = "running", !.tray = "tray",
        !.subscribed = {Listener(n) : n \in 1..Len(AppEvents)},
        !.appEventListeners = [n \in 1..Len(AppEvents) |-> Listener(n)],
        !.registered = Len(AppEvents)]

\* The state after the application has started, before any routine is called.
HostInit ==
    /\ page = FreshPage
    /\ mainWindow = "window"
    /\ session = [NoSession EXCEPT !.readyToShow = TRUE]
    /\ cacheTimers = {}
    /\ memoryTimers = {}
    /\ resetTimers = 0
    /\ willQuit = FALSE
    /\ renderer = "ok"
    /\ inflight = <<>>
    /\ replies = <<>>
    /\ history = NoHistory
    /\ proc = StartedProcess

Init ==
    /\ HostInit
    /\ call = NoCall(BareWord)

\* A handler of the window or of its page channel runs: the process is running;
\* it changes nothing of the process record.
HostStep ==
    /\ proc.status = "running"
    /\ UNCHANGED <<proc, call>>

\* mainWindow.once('ready-to-show')
ReadyToShow ==
    /\ HostStep
    /\ mainWindow = "window"
    /\ session.readyToShow
    /\ session' = [session EXCEPT !.readyToShow = FALSE, !.visible = TRUE]
    /\ history' = [history EXCEPT !.hiddenByClose = FALSE]
    /\ UNCHANGED <<page, mainWindow, cacheTimers, memoryTimers, resetTimers,
                   willQuit, renderer, inflight, replies>>

\* The did-finish-load handler, when the signal is not dropped.  The call of
\* executeJavaScript sends the install request or throws at once (threw), which
\* the handler catches; the rest of the handler runs in both cases.
ProcessLoad ==
    /\ Outstanding < MaxInflight
    /\ LET cleared == IF session.cacheInterval # 0
                      THEN clearInterval(cacheTimers, session.cacheInterval)
                      ELSE cacheTimers
           hc == FreshHandle(cacheTimers)
           hm == FreshHandle(memoryTimers)
       IN /\ cacheTimers' = cleared \cup {hc}
          /\ memoryTimers' = IF session.memoryMonitorInterval = 0
                             THEN memoryTimers \cup {hm} ELSE memoryTimers
          /\ session' = [session EXCEPT
                            !.isLoading = TRUE,
                            !.loadingStartTime = TRUE,
                            !.cacheInterval = hc,
                            !.memoryMonitorInterval = IF @ = 0 THEN hm ELSE @]
    /\ \E threw \in BOOLEAN :
          inflight' = IF threw THEN inflight
                      ELSE Append(inflight, Request("install", "load"))
    /\ resetTimers' = resetTimers + 1
    /\ history' = [history EXCEPT
                      !.cycles = Min(@ + 1, MaxCycles),
                      !.installsThisLoad = (IF session.isLoading THEN @ ELSE 0) + 1,
                      !.droppedThisLoad = session.isLoading /\ @]
    /\ UNCHANGED <<page, mainWindow, willQuit, renderer, replies>>

\* A dropped signal that restarts the loading period: the timestamp is taken anew
\* and another reset timer is armed.
DropLoadRestartsPeriod ==
    /\ history' = [history EXCEPT !.droppedThisLoad = TRUE]
    /\ resetTimers' = resetTimers + 1
    /\ UNCHANGED <<page, mainWindow, session, cacheTimers, memoryTimers,
                   willQuit, renderer, inflight, replies>>

\* The did-finish-load handler, when the loading flag is set: the signal is dropped.
DropLoad ==
    /\ history' = [history EXCEPT !.droppedThisLoad = TRUE]
    /\ UNCHANGED <<page, mainWindow, session, cacheTimers, memoryTimers,
                   resetTimers, willQuit, renderer, inflight, replies>>

\* The did-finish-load handler without its _isLoading guard.
DidFinishLoadUnguarded ==
    /\ HostStep
    /\ mainWindow = "window"
    /\ renderer # "gone"
    /\ ProcessLoad

\* webContents emits did-finish-load.
DidFinishLoad ==
    /\ HostStep
    /\ mainWindow = "window"
    /\ renderer # "gone"
    /\ IF session.isLoading THEN DropLoad ELSE ProcessLoad

\* The flag reset only once no install request is outstanding.
ResetLoadingIfSettled ==
    /\ HostStep
    /\ resetTimers > 0
    /\ \A i \in 1..Len(inflight) : inflight[i].script # "install"
    /\ resetTimers' = resetTimers - 1
    /\ session' = IF mainWindow = "window"
                  THEN [session EXCEPT !.isLoading = FALSE, !.loadingStartTime = FALSE]
                  ELSE session
    /\ history' = IF mainWindow = "window"
                  THEN [history EXCEPT !.refreshedWhileLoading = FALSE]
                  ELSE history
    /\ UNCHANGED <<page, mainWindow, cacheTimers, memoryTimers,
                   willQuit, renderer, inflight, replies>>

\* The timer armed in the handler's finally block fires.
ResetLoading ==
    /\ HostStep
    /\ resetTimers > 0
    /\ resetTimers' = resetTimers - 1
    /\ session' = IF mainWindow = "window"
                  THEN [session EXCEPT !.isLoading = FALSE, !.loadingStartTime = FALSE]
                  ELSE session
    /\ history' = IF mainWindow = "window"
                  THEN [history EXCEPT !.refreshedWhileLoading = FALSE]
                  ELSE history
    /\ UNCHANGED <<page, mainWindow, cacheTimers, memoryTimers,
                   willQuit, renderer, inflight, replies>>

\* The statements that cancel both periodic tasks (closed, render-process-gone,
\* unresponsive): clearInterval and null, for each handle that is set.
CancelPeriodicTasks ==
    /\ cacheTimers' = IF session.cacheInterval # 0
                      THEN clearInterval(cacheTimers, session.cacheInterval)
                      ELSE cacheTimers
    /\ memoryTimers' = IF session.memoryMonitorInterval # 0
                       THEN clearInterval(memoryTimers, session.memoryMonitorInterval)
                       ELSE memoryTimers
    /\ session' = [session EXCEPT !.cacheInterval = 0, !.memoryMonitorInterval = 0]
    /\ history' = [history EXCEPT !.cycles = 0]

\* The memory-monitor interval ticks: the probe script is sent to the page.
MemoryProbeTick ==
    /\ HostStep
    /\ memoryTimers # {}
    /\ mainWindow = "window"
    /\ Outstanding < MaxInflight
    /\ inflight' = Append(inflight, Request("probe", "probe"))
    /\ UNCHANGED <<page, mainWindow, session, cacheTimers, memoryTimers,
                   resetTimers, willQuit, renderer, replies, history>>

\* The close handler up to its await, with willQuit false: the default close is
\* prevented and the teardown script is sent to the page.
CloseToTray ==
    /\ Outstanding < MaxInflight
    /\ inflight' = Append(inflight, Request("teardown", "close"))
    /\ UNCHANGED <<page, mainWindow, session, cacheTimers, memoryTimers,
                   resetTimers, willQuit, renderer, replies, history>>

\* The close handler with willQuit true does nothing: the window is destroyed and
\* the closed handler runs (cancel both tasks, delete the flags, clear the reference).
CloseAndDestroy ==
    /\ cacheTimers' = IF session.cacheInterval # 0
                      THEN clearInterval(cacheTimers, session.cacheInterval)
                      ELSE cacheTimers
    /\ memoryTimers' = IF session.memoryMonitorInterval # 0
                       THEN clearInterval(memoryTimers, session.memoryMonitorInterval)
                       ELSE memoryTimers
    /\ session' = NoSession
    /\ mainWindow' = "null"
    /\ page' = FreshPage
    /\ renderer' = "gone"
    /\ history' = NoHistory
    /\ UNCHANGED <<resetTimers, willQuit, inflight, replies>>

\* The close handler with its willQuit test inverted.
CloseRequestInverted ==
    /\ HostStep
    /\ mainWindow = "window"
    /\ IF willQuit THEN CloseToTray ELSE CloseAndDestroy

\* The window receives a close request.
CloseRequest ==
    /\ HostStep
    /\ mainWindow = "window"
    /\ IF ~willQuit THEN CloseToTray ELSE CloseAndDestroy

\* The close handler after its await (the call resolved, or rejected and was caught):
\* mainWindow.hide(). With the reference cleared meanwhile the call raises a TypeError.
CloseResume ==
    /\ HostStep
    /\ replies # <<>>
    /\ Head(replies).from = "close"
    /\ replies' = Tail(replies)
    /\ session' = IF mainWindow = "window" THEN [session EXCEPT !.visible = FALSE] ELSE session
    /\ history' = IF mainWindow = "window" THEN [history EXCEPT !.hiddenByClose = TRUE] ELSE history
    /\ UNCHANGED <<page, mainWindow, cacheTimers, memoryTimers, resetTimers,
                   willQuit, renderer, inflight>>

\* before-quit, or Exit in the tray menu.
BeforeQuit ==
    /\ HostStep
    /\ Subscribed(proc, "before-quit") \/ proc.tray = "tray"
    /\ ~willQuit
    /\ willQuit' = TRUE
    /\ UNCHANGED <<page, mainWindow, session, cacheTimers, memoryTimers,
                   resetTimers, renderer, inflight, replies, history>>

\* Show/Hide in the tray menu.
TrayShowHide ==
    /\ HostStep
    /\ proc.tray = "tray"
    /\ mainWindow = "window"
    /\ session' = [session EXCEPT !.visible = ~@]
    /\ history' = [history EXCEPT !.hiddenByClose = FALSE]
    /\ UNCHANGED <<page, mainWindow, cacheTimers, memoryTimers, resetTimers,
                   willQuit, renderer, inflight, replies>>

GoneReasons == {"crashed", "killed", "clean-exit", "oom"}

\* The killed/clean-exit branch with the tasks cancelled before the teardown is awaited.
GoneCancelBeforeTeardown ==
    /\ Outstanding < MaxInflight
    /\ inflight' = Append(inflight, Request("teardown", "gone"))
    /\ CancelPeriodicTasks

\* The render-process-gone handler for reason killed or clean-exit, up to its await.
GoneAwaitTeardown ==
    /\ Outstanding < MaxInflight
    /\ inflight' = Append(inflight, Request("teardown", "gone"))
    /\ UNCHANGED <<session, cacheTimers, memoryTimers, history>>

\* webContents emits render-process-gone: the page context is lost.
RenderProcessGone(reason) ==
    /\ HostStep
    /\ mainWindow = "window"
    /\ renderer # "gone"
    /\ renderer' = "gone"
    /\ page' = FreshPage
    /\ IF reason = "killed" \/ reason = "clean-exit"
       THEN GoneAwaitTeardown
       ELSE CancelPeriodicTasks /\ inflight' = inflight
    /\ UNCHANGED <<mainWindow, resetTimers, willQuit, replies>>

\* The render-process-gone handler after its await.
GoneResume ==
    /\ HostStep
    /\ replies # <<>>
    /\ Head(replies).from = "gone"
    /\ replies' = Tail(replies)
    /\ IF mainWindow = "window"
       THEN CancelPeriodicTasks
       ELSE UNCHANGED <<session, cacheTimers, memoryTimers, history>>
    /\ UNCHANGED <<page, mainWindow, resetTimers, willQuit, renderer, inflight>>

\* webContents emits unresponsive.
Unresponsive ==
    /\ HostStep
    /\ mainWindow = "window"
    /\ renderer = "ok"
    /\ renderer' = "unresponsive"
    /\ CancelPeriodicTasks
    /\ UNCHANGED <<page, mainWindow, resetTimers, willQuit, inflight, replies>>

\* The responsive handler without its 'if (!mainWindow._cacheInterval)'.
ResponsiveAlwaysArms ==
    /\ HostStep
    /\ mainWindow = "window"
    /\ renderer = "unresponsive"
    /\ renderer' = "ok"
    /\ LET hc == FreshHandle(cacheTimers)
       IN /\ cacheTimers' = cacheTimers \cup {hc}
          /\ session' = [session EXCEPT !.cacheInterval = hc]
    /\ UNCHANGED <<page, mainWindow, memoryTimers, resetTimers, willQuit,
                   inflight, replies, history>>

\* The responsive handler arming the memory monitor as well.
ResponsiveArmsBoth ==
    /\ HostStep
    /\ mainWindow = "window"
    /\ renderer = "unresponsive"
    /\ renderer' = "ok"
    /\ LET hc == FreshHandle(cacheTimers)
           hm == FreshHandle(memoryTimers)
       IN /\ cacheTimers' = IF session.cacheInterval = 0
                            THEN cacheTimers \cup {hc} ELSE cacheTimers
          /\ memoryTimers' = IF session.memoryMonitorInterval = 0
                             THEN memoryTimers \cup {hm} ELSE memoryTimers
          /\ session' = [session EXCEPT
                            !.cacheInterval = IF @ = 0 THEN hc ELSE @,
                            !.memoryMonitorInterval = IF @ = 0 THEN hm ELSE @]
    /\ UNCHANGED <<page, mainWindow, resetTimers, willQuit,
                   inflight, replies, history>>

\* webContents emits responsive: the cache task is armed again if it is not armed.
Responsive ==
    /\ HostStep
    /\ mainWindow = "window"
    /\ renderer = "unresponsive"
    /\ renderer' = "ok"
    /\ IF session.cacheInterval = 0
       THEN LET hc == FreshHandle(cacheTimers)
            IN /\ cacheTimers' = cacheTimers \cup {hc}
               /\ session' = [session EXCEPT !.cacheInterval = hc]
       ELSE UNCHANGED <<cacheTimers, session>>
    /\ UNCHANGED <<page, mainWindow, memoryTimers, resetTimers, willQuit,
                   inflight, replies, history>>

\* A new document is loaded in the window (navigation, reload from the tray menu or
\* from the page): the previous page context is gone.
PageLoad ==
    /\ HostStep
    /\ mainWindow = "window"
    /\ page' = FreshPage
    /\ renderer' = IF renderer = "gone" THEN "ok" ELSE renderer
    /\ history' = [history EXCEPT !.hiddenByClose = FALSE]
    /\ UNCHANGED <<mainWindow, session, cacheTimers, memoryTimers, resetTimers,
                   willQuit, inflight, replies>>

\* usedJSHeapSize / jsHeapSizeLimit as the page may report it, in percent, and the
\* ratio above which the probe cleans up (usageRatio > 0.8).
HeapRatios == {80, 81}
HighWaterPercent == 80

\* The memory probe script calling the cleanup function whatever the ratio is.
ProbeScriptAlways(p, ratio) ==
    IF p.cleanupFn THEN scrollRefreshCleanup(p) ELSE p

\* The memory probe script: above the high-water ratio it calls the cleanup
\* function, if there is one.
ProbeScript(p, ratio) ==
    IF ratio > HighWaterPercent /\ p.cleanupFn THEN scrollRefreshCleanup(p) ELSE p

ProbeResult(p, ratio) ==
    IF ratio > HighWaterPercent /\ p.cleanupFn /\ ~p.manager THEN "rejected" ELSE "resolved"

\* The page evaluates the oldest request and the call resolves or rejects.
PageExec(ratio) ==
    /\ HostStep
    /\ inflight # <<>>
    /\ mainWindow = "window"
    /\ renderer = "ok"
    /\ LET r == Head(inflight)
       IN /\ (r.script # "probe") => ratio = HighWaterPercent
          /\ page' = CASE r.script = "install" -> InstallScript(page)
                       [] r.script = "teardown" -> TeardownScript(page)
                       [] r.script = "probe" -> ProbeScript(page, ratio)
          /\ replies' = Append(replies,
                CASE r.script = "install" -> Reply(r.from, InstallResult(page))
                  [] r.script = "teardown" -> Reply(r.from, TeardownResult(page))
                  [] r.script = "probe" -> Reply(r.from, ProbeResult(page, ratio)))
    /\ inflight' = Tail(inflight)
    /\ UNCHANGED <<mainWindow, session, cacheTimers, memoryTimers, resetTimers,
                   willQuit, renderer, history>>

\* The oldest request fails without being evaluated (no renderer, no window).
PageReject ==
    /\ HostStep
    /\ inflight # <<>>
    /\ (mainWindow = "null" \/ renderer # "ok")
    /\ replies' = Append(replies, Reply(Head(inflight).from, "rejected"))
    /\ inflight' = Tail(inflight)
    /\ UNCHANGED <<page, mainWindow, session, cacheTimers, memoryTimers,
                   resetTimers, willQuit, renderer, history>>

\* The calls without their .catch: a rejected call is an unhandled rejection.
LoggedReplyUncaught ==
    /\ proc.status = "running"
    /\ replies # <<>>
    /\ Head(replies).from \in {"load", "probe", "rejection"}
    /\ replies' = Tail(replies)
    /\ proc' = IF Head(replies).result = "rejected"
               THEN [proc EXCEPT !.rejections = @ + 1] ELSE proc
    /\ UNCHANGED <<page, mainWindow, session, cacheTimers, memoryTimers,
                   resetTimers, willQuit, renderer, inflight, history, call>>

\* The .catch of an install, probe or unhandled-rejection teardown call runs, or
\* nothing does: the outcome is logged at most.
LoggedReply ==
    /\ HostStep
    /\ replies # <<>>
    /\ Head(replies).from \in {"load", "probe", "rejection"}
    /\ replies' = Tail(replies)
    /\ UNCHANGED <<page, mainWindow, session, cacheTimers, memoryTimers,
                   resetTimers, willQuit, renderer, inflight, history>>

Next ==
    \/ ReadyToShow
    \/ DidFinishLoad
    \/ ResetLoading
    \/ MemoryProbeTick
    \/ CloseRequest
    \/ CloseResume
    \/ BeforeQuit
    \/ TrayShowHide
    \/ \E reason \in GoneReasons : RenderProcessGone(reason)
    \/ GoneResume
    \/ Unresponsive
    \/ Responsive
    \/ PageLoad
    \/ \E ratio \in HeapRatios : PageExec(ratio)
    \/ PageReject
    \/ LoggedReply

Spec == Init /\ [][Next]_vars

PageNext ==
    \/ EvalInstall
    \/ EvalTeardown
    \/ \E event \in WheelEvents : Wheel(event)
    \/ \E y \in ScrollPositions : Scroll(y)
    \/ \E x \in ClientXs : MouseMove(x)
    \/ \E k \in TimeoutKeys : StyleTimerFires(k)
    \/ IdleTick
    \/ RefreshClick
    \/ GestureReloadFires
    \/ ClickReloadFires

PageSpec == Init /\ [][PageNext]_vars

\* The page context with its idle interval firing for as long as it is live.
PageFairSpec == PageSpec /\ WF_vars(IdleTick)

(***************************************************************************)
(* The process-level fault handlers.                                       *)
(***************************************************************************)
FaultValues == {Value("Error", "TypeError", "boom", ""), Value("string", "", "", "")}

windowVars == <<page, mainWindow, session, cacheTimers, memoryTimers, resetTimers,
                willQuit, renderer, history, call>>

\* cleanupApp(): app.off for every recorded handler, the registry emptied, the
\* tray destroyed if there is one.
cleanupApp(pr) ==
    [pr EXCEPT !.subscribed = @ \ {pr.appEventListeners[i] :
                                       i \in 1..Len(pr.appEventListeners)},
               !.unsubscribed = @ \o pr.appEventListeners,
               !.appEventListeners = <<>>,
               !.tray = "null"]

\* process.exit(code)
exit(pr, code) == [pr EXCEPT !.status = "exited", !.code = code]

\* performGracefulCleanup awaiting the teardown call alone, without the timer.
awaitTeardownOnly(pr) == [pr EXCEPT !.awaiting = @ + 1]

\* performGracefulCleanup with a window, up to its await: the teardown call is
\* raced against a 3 s timer.
awaitTeardownOrTimeout(pr) == [pr EXCEPT !.awaiting = @ + 1, !.timers = @ + 1]

\* performGracefulCleanup after its await, and the .then of the fault handler:
\* cleanupApp(), then process.exit(1).
finishCleanupAndExit(pr) == exit(cleanupApp(pr), 1)

Faults == proc.uncaught + proc.rejections

\* The 'uncaughtException' listener.
UncaughtException(error) ==
    /\ proc.status = "running"
    /\ Subscribed(proc, "uncaughtException")
    /\ Faults < MaxFaults
    /\ LET logged == [proc EXCEPT !.logged = sanitizeError(error), !.uncaught = @ + 1]
       IN IF mainWindow = "window"
          THEN /\ Outstanding < MaxInflight
               /\ inflight' = Append(inflight, Request("teardown", "fatal"))
               /\ proc' = awaitTeardownOrTimeout(logged)
          ELSE /\ inflight' = inflight
               /\ proc' = finishCleanupAndExit(logged)
    /\ UNCHANGED <<windowVars, replies>>

\* The teardown call of performGracefulCleanup has settled (resolved, or rejected
\* and caught): the race is won by Promise.all.
FatalResume ==
    /\ proc.status = "running"
    /\ proc.awaiting > 0
    /\ replies # <<>>
    /\ Head(replies).from = "fatal"
    /\ replies' = Tail(replies)
    /\ proc' = finishCleanupAndExit(proc)
    /\ UNCHANGED <<windowVars, inflight>>

\* The 3 s timer of performGracefulCleanup fires first.
FatalTimeout ==
    /\ proc.status = "running"
    /\ proc.awaiting > 0
    /\ proc.timers > 0
    /\ proc' = finishCleanupAndExit(proc)
    /\ UNCHANGED <<windowVars, inflight, replies>>

\* The 'unhandledRejection' listener: the reason is logged sanitized and, with a
\* window, the teardown script is sent without waiting for it.
UnhandledRejection(reason) ==
    /\ proc.status = "running"
    /\ Subscribed(proc, "unhandledRejection")
    /\ Faults < MaxFaults
    /\ proc' = [proc EXCEPT !.logged = sanitizeError(reason), !.rejections = @ + 1]
    /\ IF mainWindow = "window"
       THEN /\ Outstanding < MaxInflight
            /\ inflight' = Append(inflight, Request("teardown", "rejection"))
       ELSE inflight' = inflight
    /\ UNCHANGED <<windowVars, replies>>

\* The fault handlers together with the window handlers that decide what a fault
\* finds: a window or none, periodic tasks armed or not, a page that answers,
\* fails or stays silent.
FatalNext ==
    \/ DidFinishLoad
    \/ ResetLoading
    \/ CloseRequest
    \/ CloseResume
    \/ BeforeQuit
    \/ \E reason \in GoneReasons : RenderProcessGone(reason)
    \/ GoneResume
    \/ \E ratio \in HeapRatios : PageExec(ratio)
    \/ PageReject
    \/ LoggedReply
    \/ \E error \in FaultValues : UncaughtException(error)
    \/ \E reason \in FaultValues : UnhandledRejection(reason)
    \/ FatalResume
    \/ FatalTimeout

\* Timers fire and the continuation of a settled promise runs; whether the page
\* ever answers a request is not assumed.
FatalSpec ==
    /\ Init
    /\ [][FatalNext]_vars
    /\ WF_vars(FatalTimeout)
    /\ WF_vars(FatalResume)
    /\ WF_vars(ResetLoading)
    /\ WF_vars(CloseResume)
    /\ WF_vars(GoneResume)
    /\ WF_vars(LoggedReply)

(***************************************************************************)
(* The application lifecycle: the registrations of the main module, ready, *)
(* the always-on-top toggle, the tray, window-all-closed, activate, quit.  *)
(***************************************************************************)
\* The toggle handler notifying the page of the state before the change.
toggleAlwaysOnTopSendsOld(s) ==
    [s EXCEPT !.alwaysOnTop = ~@, !.lastSent = <<s.alwaysOnTop>>]

\* The body of the toggle-always-on-top handler on a live window:
\* setAlwaysOnTop(!currentState), then send('always-on-top-changed', !currentState).
toggleAlwaysOnTop(s) ==
    [s EXCEPT !.alwaysOnTop = ~@, !.lastSent = <<~s.alwaysOnTop>>]

\* The main module starts to be evaluated: no window, no tray, no listener.
AppInit ==
    /\ page = FreshPage
    /\ mainWindow = "null"
    /\ session = NoSession
    /\ cacheTimers = {}
    /\ memoryTimers = {}
    /\ resetTimers = 0
    /\ willQuit = FALSE
    /\ renderer = "gone"
    /\ inflight = <<>>
    /\ replies = <<>>
    /\ history = NoHistory
    /\ \E platform \in Platforms : proc = LoadingProcess(platform)
    /\ call = NoCall(BareWord)

\* The next top-level addAppListener statement of the main module runs.
AddAppListener ==
    /\ proc.status = "loading"
    /\ proc.registered < Len(AppEvents)
    /\ proc' = addAppListener(proc, Listener(proc.registered + 1))
    /\ UNCHANGED <<windowVars, inflight, replies>>

\* createWindow(): a new window, hidden until ready-to-show, loading the home page.
CreateWindow ==
    /\ mainWindow' = "window"
    /\ session' = [NoSession EXCEPT !.readyToShow = TRUE]
    /\ page' = FreshPage
    /\ renderer' = "ok"
    /\ history' = NoHistory

\* app.whenReady().then: createWindow(), createTray().
WhenReady ==
    /\ proc.status = "loading"
    /\ proc.registered = Len(AppEvents)
    /\ CreateWindow
    /\ proc' = [proc EXCEPT !.status = "running", !.tray = "tray"]
    /\ UNCHANGED <<cacheTimers, memoryTimers, resetTimers, willQuit,
                   inflight, replies, call>>

\* ipcMain receives toggle-always-on-top.
Toggle ==
    /\ HostStep
    /\ session' = IF mainWindow = "window" THEN toggleAlwaysOnTop(session) ELSE session
    /\ UNCHANGED <<page, mainWindow, cacheTimers, memoryTimers, resetTimers,
                   willQuit, renderer, inflight, replies, history>>

\* Double-click on the tray icon: mainWindow.show(), mainWindow.focus().
TrayDoubleClick ==
    /\ HostStep
    /\ proc.tray = "tray"
    /\ mainWindow = "window"
    /\ session' = [session EXCEPT !.visible = TRUE]
    /\ history' = [history EXCEPT !.hiddenByClose = FALSE]
    /\ UNCHANGED <<page, mainWindow, cacheTimers, memoryTimers, resetTimers,
                   willQuit, renderer, inflight, replies>>

\* Refresh in the tray menu: with a window, mainWindow.webContents.reload(); a new
\* document replaces the page.
TrayRefresh ==
    /\ HostStep
    /\ proc.tray = "tray"
    /\ mainWindow = "window"
    /\ page' = FreshPage
    /\ renderer' = IF renderer = "gone" THEN "ok" ELSE renderer
    /\ history' = [history EXCEPT !.hiddenByClose = FALSE,
                                  !.refreshedWhileLoading = session.isLoading]
    /\ UNCHANGED <<mainWindow, session, cacheTimers, memoryTimers, resetTimers,
                   willQuit, inflight, replies>>

\* The 'window-all-closed' listener: off macOS, cleanupApp() and app.quit().
WindowAllClosed ==
    /\ proc.status = "running"
    /\ Subscribed(proc, "window-all-closed")
    /\ mainWindow = "null"
    /\ proc' = IF proc.platform # "darwin" THEN cleanupApp(proc) ELSE proc
    /\ UNCHANGED <<windowVars, inflight, replies>>

\* The 'activate' listener (macOS): with no window open, createWindow().  The
\* requests sent to the page of the window that was closed have settled.
Activate ==
    /\ proc.status = "running"
    /\ Subscribed(proc, "activate")
    /\ proc.platform = "darwin"
    /\ inflight = <<>>
    /\ IF mainWindow = "null"
       THEN CreateWindow
       ELSE UNCHANGED <<mainWindow, session, page, renderer, history>>
    /\ UNCHANGED <<cacheTimers, memoryTimers, resetTimers, willQuit,
                   inflight, replies, proc, call>>

\* The application quits once no window is left (app.quit() was called).
Quit ==
    /\ proc.status = "running"
    /\ mainWindow = "null"
    /\ proc' = exit(proc, 0)
    /\ UNCHANGED <<windowVars, inflight, replies>>

AppNext ==
    \/ AddAppListener
    \/ WhenReady
    \/ ReadyToShow
    \/ Toggle
    \/ CloseRequest
    \/ CloseResume
    \/ BeforeQuit
    \/ TrayShowHide
    \/ TrayDoubleClick
    \/ WindowAllClosed
    \/ Activate
    \/ Quit
    \/ \E ratio \in HeapRatios : PageExec(ratio)
    \/ PageReject
    \/ \E error \in FaultValues : UncaughtException(error)
    \/ FatalResume
    \/ FatalTimeout

AppSpec == AppInit /\ [][AppNext]_vars

\* The page reloaded from the tray menu while the window handles its load-finished
\* signals.
RefreshNext ==
    \/ TrayRefresh
    \/ DidFinishLoad
    \/ ResetLoading
    \/ MemoryProbeTick
    \/ \E ratio \in HeapRatios : PageExec(ratio)
    \/ LoggedReply

RefreshSpec == Init /\ [][RefreshNext]_vars

(***************************************************************************)
(* The URL policy and the error sanitizer applied to one input.            *)
(***************************************************************************)
Schemes == {"https", "HTTPS", "http", "Http", "mailto", "tel", "file", "ftp",
            "javascript", "JavaScript", "data", "vbscript", ""}
Hosts == {"", "bsky.app", "BSKY.APP", "api.bsky.app", "bsky.app.evil.com",
          "evilbsky.app", "localhost", "[invalid-ipv6]"}
UserInfos == {"", "bsky.app"}
Ports == {"", "443", "80", "3000", "99999"}

Urls ==
    {UrlString(s, sl, ui, h, p, "") :
        s \in Schemes, sl \in BOOLEAN, ui \in UserInfos, h \in Hosts, p \in Ports}
    \cup {UrlString("blob", FALSE, "", h, p, i) :
        h \in Hosts, p \in Ports, i \in {"", "http", "https"}}
    \cup {NullUrl, UndefinedUrl}

ErrorNames == {"Error", "TypeError", "CustomError"}
Messages == {"boom", "<script>alert(1)</script>", "ENOENT: /home/user/token.txt"}
Stacks == {"", "at createWindow (/home/user/app/main.js:75:3)"}

ErrorValues ==
    {Value("Error", n, m, st) : n \in ErrorNames, m \in Messages, st \in Stacks}
    \cup {Value("object", n, m, st) : n \in {"", "Error"}, m \in {"", "boom"}, st \in Stacks}
    \cup {Value(k, "", "", "") : k \in {"string", "number", "null", "undefined"}}

\* The rest of the application, which these routines do not touch.
appVars == <<page, mainWindow, session, cacheTimers, memoryTimers, resetTimers,
             willQuit, renderer, inflight, replies, history, proc>>

\* windowOpenHandler without the isSafeUrl test.
windowOpenHandlerOpensAll(url) == [opened |-> TRUE, action |-> "deny"]

\* windowOpenHandler({ url }): whether shell.openExternal(url) is called, and the
\* action returned.
windowOpenHandler(url) == [opened |-> isSafeUrl(url), action |-> "deny"]

\* The will-navigate handler comparing the host name instead of the origin.
willNavigateByHostname(navigationUrl) ==
    LET parsedUrl == ParseUrl(navigationUrl)
    IN IF ~parsedUrl.ok
       THEN [threw |-> TRUE, prevented |-> FALSE]
       ELSE [threw |-> FALSE, prevented |-> parsedUrl.hostname # "bsky.app"]

\* The will-navigate handler: new URL() outside any try, then the origin test.
willNavigate(navigationUrl) ==
    LET parsedUrl == ParseUrl(navigationUrl)
    IN IF ~parsedUrl.ok
       THEN [threw |-> TRUE, prevented |-> FALSE]
       ELSE [threw |-> FALSE, prevented |-> parsedUrl.origin # HomeOrigin]

ApplyIsSafeUrl ==
    /\ call.routine = "none"
    /\ call.input \in Urls
    /\ call' = [call EXCEPT !.routine = "isSafeUrl", !.result = isSafeUrl(call.input)]
    /\ UNCHANGED appVars

\* The page asks for a new window (window.open, target=_blank link).
WindowOpen ==
    /\ call.routine = "none"
    /\ call.input \in Urls
    /\ mainWindow = "window"
    /\ LET r == windowOpenHandler(call.input)
       IN call' = [call EXCEPT !.routine = "windowOpen", !.opened = r.opened,
                               !.action = r.action]
    /\ UNCHANGED appVars

\* webContents emits will-navigate.
WillNavigate ==
    /\ call.routine = "none"
    /\ call.input \in Urls
    /\ mainWindow = "window"
    /\ LET r == willNavigate(call.input)
       IN call' = [call EXCEPT !.routine = "willNavigate", !.threw = r.threw,
                               !.prevented = r.prevented]
    /\ UNCHANGED appVars

ApplySanitizeError ==
    /\ call.routine = "none"
    /\ call.input \in ErrorValues
    /\ call' = [call EXCEPT !.routine = "sanitizeError", !.record = sanitizeError(call.input)]
    /\ UNCHANGED appVars

PolicyInit ==
    /\ HostInit
    /\ \E v \in Urls \cup ErrorValues : call = NoCall(v)

PolicyNext ==
    \/ ApplyIsSafeUrl
    \/ WindowOpen
    \/ WillNavigate
    \/ ApplySanitizeError

PolicySpec == PolicyInit /\ [][PolicyNext]_vars

(***************************************************************************)
(* Properties.                                                             *)
(***************************************************************************)
HasRequest(script, from) ==
    \E i \in 1..Len(inflight) : inflight[i] = Request(script, from)

\* The registry is empty: no entry point, no manager field, no handle held.
Absent(p) ==
    /\ ~p.cleanupFn
    /\ ~p.manager
    /\ p.handlerRefs = {}
    /\ p.elementRefs = {}
    /\ \A k \in TimeoutKeys : p.timeoutRefs[k] = "null"
    /\ p.idleRef = "null"

\* The registry is populated: the entry point and the manager's fields exist.
Installed(p) == p.cleanupFn /\ p.manager

\* Nothing the install script created is live in the page.
NothingLive(p) ==
    /\ p.idleTimers = 0
    /\ \A k \in TimeoutKeys : p.timers[k] = 0
    /\ \A k \in ListenerKinds : p.listeners[k] = 0
    /\ \A n \in NodeIds : p.nodes[n] = 0
    /\ ~p.intervalGlobal

\* Each listener, button and the idle interval exists at most once.
AtMostOnce(p) ==
    /\ \A k \in ListenerKinds : p.listeners[k] <= 1
    /\ p.nodes["floating-pin-btn"] <= 1
    /\ p.nodes["floating-refresh-btn"] <= 1
    /\ p.idleTimers <= 1

\* C1: while the loading flag set by a processed load-finished signal is still set,
\* exactly one install request has been sent, however many further signals arrived:
\* a signal that arrives while the flag is set sends no install.
C1_OneInstallPerLoad ==
    /\ (mainWindow = "window" /\ session.isLoading) => history.installsThisLoad = 1
    /\ history.droppedThisLoad => history.installsThisLoad = 1

C1_Witness ==
    /\ session.isLoading
    /\ history.droppedThisLoad
    /\ history.installsThisLoad = 1

\* C2: after N >= 1 load-finished signals processed in a row, exactly one cache-clear
\* timer and exactly one memory-probe timer are live.
C2_OneTimerEachAfterLoads ==
    history.cycles >= 1 =>
        /\ Cardinality(cacheTimers) = 1
        /\ Cardinality(memoryTimers) = 1

C2_Witness ==
    /\ history.cycles = MaxCycles
    /\ Cardinality(cacheTimers) = 1
    /\ Cardinality(memoryTimers) = 1

\* C3: in every reachable state at most one cache-clear timer and at most one
\* memory-probe timer is live, and a live timer is the one the session handle holds.
C3_AtMostOneTimerEach ==
    /\ Cardinality(cacheTimers) <= 1
    /\ Cardinality(memoryTimers) <= 1
    /\ \A h \in cacheTimers : h = session.cacheInterval
    /\ \A h \in memoryTimers : h = session.memoryMonitorInterval

C3_Witness ==
    /\ cacheTimers = {2}
    /\ session.cacheInterval = 2
    /\ memoryTimers = {session.memoryMonitorInterval}
    /\ renderer = "ok"

\* C4: after the guarded teardown script has been evaluated once or twice in a row,
\* in a page where install ran or never ran, no evaluation has raised an error and
\* the registry is empty.
C4_TeardownIdempotent ==
    page.teardownsInRow >= 1 =>
        /\ ~page.teardownFailed
        /\ Absent(page)
        /\ TeardownScript(page) = page

C4_Witness ==
    /\ page.teardownsInRow = 2
    /\ page.declared
    /\ Absent(page)

\* C5: every evaluation of the install script in a page context, also one in a
\* context where the enhancements are installed, tears the previous installation
\* down and builds a registry, and no listener, button or idle interval is doubled.
C5_ReinstallTearsDown ==
    /\ page.installs = page.installEvals
    /\ AtMostOnce(page)

\* C6: a teardown evaluated in a page where the enhancements are installed leaves
\* nothing live: interval and tracked timeouts cancelled, listeners and nodes removed,
\* registry and global entry points cleared.
C6_TeardownReleasesAll ==
    [][(page.cleanupFn /\ page' = AfterTeardown(page)) =>
          (NothingLive(page') /\ Absent(page'))]_vars

C6_Witness ==
    /\ page.declared
    /\ page.teardownsInRow = 1
    /\ page.clickReloads = 1
    /\ page.scrollY > 10
    /\ NothingLive(page)

\* C7: a valid upward wheel event at the top of the page adds its magnitude to the
\* accumulator; once the accumulator is at or above 150 the indicator is shown and
\* exactly one reload timer of 500 ms is pending, and an event that leaves the
\* accumulator below 150 arms nothing.
C7_WheelArmsAtThreshold ==
    [][\A event \in WheelEvents :
          (Wheel(event) /\ page.scrollY <= 10 /\ event.finite
             /\ event.deltaY < 0 /\ Abs(event.deltaY) <= 1000) =>
             /\ page'.acc = page.acc + Abs(event.deltaY)
             /\ page'.acc >= 150 =>
                   /\ page'.indicatorShown
                   /\ page'.nodes["scroll-refresh-indicator"] = 1
                   /\ page'.timers["indicatorTimeout"] = 1
                   /\ page'.timeoutRefs["indicatorTimeout"] = "live"
                   /\ page'.reloadDelay = 500
             /\ page'.acc < 150 =>
                   /\ page'.timers = page.timers
                   /\ page'.timeoutRefs = page.timeoutRefs]_vars

C7_Witness ==
    /\ page.acc = 160
    /\ page.indicatorShown
    /\ page.timers["indicatorTimeout"] = 1

\* C8: a valid downward wheel event that arrives while a wheel-gesture reload is
\* pending cancels the reload, hides the indicator and resets the accumulator.
C8_DownwardCancels ==
    [][\A event \in WheelEvents :
          (Wheel(event) /\ IsDownward(event) /\ page.timers["indicatorTimeout"] > 0) =>
             /\ page'.timers["indicatorTimeout"] = 0
             /\ ~page'.indicatorShown
             /\ page'.acc = 0]_vars

\* C9: render-process-gone with reason crashed cancels both periodic tasks and sends
\* nothing to the page; with reason clean-exit it sends the teardown script and leaves
\* the tasks as they are, and the tasks are cancelled when the handler resumes.
C9_GoneHandling ==
    /\ [][RenderProcessGone("crashed") =>
             /\ cacheTimers' = {} /\ memoryTimers' = {}
             /\ session'.cacheInterval = 0 /\ session'.memoryMonitorInterval = 0
             /\ inflight' = inflight]_vars
    /\ [][RenderProcessGone("clean-exit") =>
             /\ inflight' = Append(inflight, Request("teardown", "gone"))
             /\ UNCHANGED <<cacheTimers, memoryTimers, session>>]_vars
    /\ [][(GoneResume /\ mainWindow = "window") =>
             /\ cacheTimers' = {} /\ memoryTimers' = {}
             /\ session'.cacheInterval = 0 /\ session'.memoryMonitorInterval = 0]_vars

C9_Witness ==
    /\ renderer = "gone"
    /\ HasRequest("teardown", "gone")
    /\ cacheTimers # {}
    /\ memoryTimers # {}

\* C10: a close request with willQuit false leaves the window in place and sends the
\* teardown script before anything is hidden; when the handler resumes the window is
\* hidden and its session kept; the window reference is cleared only with willQuit true.
C10_CloseToTray ==
    /\ [][(CloseRequest /\ ~willQuit) =>
             /\ mainWindow' = "window"
             /\ session' = session
             /\ inflight' = Append(inflight, Request("teardown", "close"))]_vars
    /\ [][(CloseResume /\ mainWindow = "window") =>
             /\ mainWindow' = "window"
             /\ session' = [session EXCEPT !.visible = FALSE]]_vars
    /\ [][(CloseRequest /\ mainWindow' # "window") => willQuit]_vars

C10_Witness ==
    /\ history.hiddenByClose
    /\ mainWindow = "window"
    /\ ~session.visible
    /\ session.cacheInterval # 0
    /\ ~willQuit

C12_HttpIsSafe ==
    (/\ call.routine = "isSafeUrl"
     /\ ParseUrl(call.input).ok
     /\ ParseUrl(call.input).protocol \in {"http:", "https:", "mailto:", "tel:"})
        => call.result

(***************************************************************************)
(* C13: a top-level navigation to a URL that parses proceeds exactly when  *)
(* the URL's origin is https://bsky.app; subdomains, hosts that contain    *)
(* the home domain and http://bsky.app are prevented.                      *)
(***************************************************************************)
C13_NavigationStaysHome ==
    (call.routine = "willNavigate" /\ ParseUrl(call.input).ok) =>
        LET url == ParseUrl(call.input)
        IN /\ ~call.threw
           /\ ~call.prevented <=> url.origin = HomeOrigin
           /\ url.hostname \in {"api.bsky.app", "bsky.app.evil.com", "evilbsky.app"}
                 => call.prevented
           /\ url.protocol = "http:" => call.prevented
           /\ ~call.prevented =>
                 \/ url.protocol = "https:" /\ url.hostname = "bsky.app" /\ url.port = ""
                 \/ url.protocol = "blob:"

C13_Witness ==
    /\ call.routine = "willNavigate"
    /\ call.input = UrlString("http", TRUE, "", "bsky.app", "", "")
    /\ call.prevented

(***************************************************************************)
(* C14: every new-window request is answered with 'deny', and the URL is   *)
(* handed to shell.openExternal exactly when isSafeUrl accepts it, so only *)
(* https, mailto and tel URLs are ever opened externally.                  *)
(***************************************************************************)
C14_WindowOpenDenied ==
    call.routine = "windowOpen" =>
        /\ call.action = "deny"
        /\ call.opened <=> isSafeUrl(call.input)
        /\ call.opened =>
              /\ call.input.kind = "string"
              /\ Lower(call.input.scheme) \in {"https", "mailto", "tel"}

C14_Witness ==
    /\ call.routine = "windowOpen"
    /\ call.input = UrlString("javascript", FALSE, "", "", "", "")
    /\ ~call.opened
    /\ call.action = "deny"

(***************************************************************************)
(* C15: for every input that is not an Error (string, number, plain        *)
(* object, null, undefined) sanitizeError returns exactly 'Unknown error'  *)
(* and does not throw.                                                     *)
(***************************************************************************)
C15_NonErrorIsUnknown ==
    (call.routine = "sanitizeError" /\ call.input.kind # "Error") =>
        /\ ~call.threw
        /\ call.record.type = "string"
        /\ call.record.text = "Unknown error"
        /\ call.record = UnknownError

C15_Witness ==
    /\ call.routine = "sanitizeError"
    /\ call.input = Value("object", "Error", "boom", "")
    /\ call.record.text = "Unknown error"

C17_UncaughtExits ==
    (proc.uncaught > 0) ~> (proc.status = "exited" /\ proc.code # 0)

C17_Witness ==
    /\ proc.uncaught > 0
    /\ proc.status = "exited"
    /\ proc.code = 1
    /\ mainWindow = "window"
    /\ \E i \in 1..Len(inflight) : inflight[i].from = "fatal"

(***************************************************************************)
(* C18: once an unhandled rejection has been delivered to its handler, the *)
(* process eventually exits with a non-zero status.                        *)
(***************************************************************************)
C18_RejectionExits ==
    (proc.rejections > 0) ~> (proc.status = "exited" /\ proc.code # 0)

(***************************************************************************)
(* C19: at no time are two install requests outstanding, that is sent to   *)
(* the page and not yet resolved or rejected.                              *)
(***************************************************************************)
C19_OneInstallOutstanding ==
    Cardinality({i \in 1..Len(inflight) : inflight[i].script = "install"}) <= 1

(***************************************************************************)
(* C20: when the page scrolls out of the top region (scrollY > 10) while a *)
(* wheel-gesture reload is pending, the accumulator becomes zero, the      *)
(* indicator is hidden and the pending reload timer is cancelled.          *)
(***************************************************************************)
C20_LeavingTopCancels ==
    [][\A y \in ScrollPositions :
          (Scroll(y) /\ y > 10 /\ page.timers["indicatorTimeout"] > 0)
              => /\ page'.acc = 0
                 /\ ~page'.indicatorShown
                 /\ page'.timers["indicatorTimeout"] = 0]_vars

(***************************************************************************)
(* C21: a wheel event whose deltaY is missing, not a number, not finite or *)
(* above 1000 in magnitude leaves the accumulator, the visibility of the   *)
(* indicator and the pending reload timer as they are, in every state.     *)
(***************************************************************************)
C21_RejectedWheelChangesNothing ==
    [][\A event \in WheelEvents :
          (Wheel(event) /\ (~event.finite \/ Abs(event.deltaY) > 1000))
              => /\ page'.acc = page.acc
                 /\ page'.indicatorShown = page.indicatorShown
                 /\ page'.timers = page.timers
                 /\ page'.timeoutRefs = page.timeoutRefs
                 /\ page'.isAtTop = page.isAtTop]_vars

C21_Witness ==
    /\ page.lastWheel = "rejected"
    /\ page.timers["indicatorTimeout"] = 1
    /\ page.indicatorShown
    /\ page.acc >= 150

(***************************************************************************)
(* C22: a tick of the idle interval with a positive accumulator and no     *)
(* reload pending multiplies the accumulator by 0.9 (whole units, rounded  *)
(* down) and sets it to zero with the indicator hidden once it is below    *)
(* 10; while a reload is pending the tick leaves the accumulator as it is; *)
(* and a positive accumulator with no reload pending eventually reaches    *)
(* zero with the indicator hidden unless a wheel event arrives.            *)
(***************************************************************************)
C22_AccumulatorDecays ==
    /\ [][(IdleTick /\ page.acc > 0 /\ page.timeoutRefs["indicatorTimeout"] = "null")
            => /\ page'.acc = (IF (page.acc * 9) \div 10 < 10 THEN 0 ELSE (page.acc * 9) \div 10)
               /\ page'.acc < page.acc
               /\ page'.acc = 0 => ~page'.indicatorShown]_vars
    /\ [][(IdleTick /\ page.timeoutRefs["indicatorTimeout"] # "null")
            => page'.acc = page.acc /\ page'.indicatorShown = page.indicatorShown]_vars
    /\ (page.manager /\ page.acc > 0 /\ page.timeoutRefs["indicatorTimeout"] = "null")
          ~> ((page.acc = 0 /\ ~page.indicatorShown) \/ page.lastWheel # "none")

C22_Witness ==
    /\ page.manager
    /\ page.acc = 54
    /\ page.lastWheel = "none"
    /\ page.timeoutRefs["indicatorTimeout"] = "null"

(***************************************************************************)
(* C23: after a close request with willQuit false the window is eventually *)
(* hidden by the close handler, also when the page never answers the       *)
(* teardown call (unless the window is destroyed or the process exits      *)
(* first).                                                                 *)
(***************************************************************************)
C23_CloseEventuallyHides ==
    HasRequest("teardown", "close")
        ~> (history.hiddenByClose \/ mainWindow = "null" \/ proc.status = "exited")

(***************************************************************************)
(* C24: after the window was closed, after the renderer is gone and after  *)
(* the renderer became unresponsive, once the event has been handled both  *)
(* periodic tasks are cancelled, their handles absent, and the loading     *)
(* flag and its start timestamp cleared.                                   *)
(***************************************************************************)
C24_EventsClearSession ==
    [][(\/ Unresponsive
        \/ RenderProcessGone("crashed")
        \/ RenderProcessGone("oom")
        \/ GoneResume /\ mainWindow = "window"
        \/ CloseRequest /\ willQuit)
          => /\ cacheTimers' = {}
             /\ memoryTimers' = {}
             /\ session'.cacheInterval = 0
             /\ session'.memoryMonitorInterval = 0
             /\ ~session'.isLoading
             /\ ~session'.loadingStartTime]_vars

(***************************************************************************)
(* C25: on renderer-responsive the cache-clear task is armed exactly when  *)
(* it was not armed; an armed cache-clear handle and its timer are left as *)
(* they are, and the memory-probe handle and timer never change.           *)
(***************************************************************************)
C25_ResponsiveRearmsCache ==
    [][Responsive =>
          /\ session.cacheInterval = 0 =>
                /\ session'.cacheInterval # 0
                /\ session'.cacheInterval \notin cacheTimers
                /\ cacheTimers' = cacheTimers \cup {session'.cacheInterval}
          /\ session.cacheInterval # 0 =>
                /\ session'.cacheInterval = session.cacheInterval
                /\ cacheTimers' = cacheTimers
          /\ session'.memoryMonitorInterval = session.memoryMonitorInterval
          /\ memoryTimers' = memoryTimers]_vars

C25_Witness ==
    /\ renderer = "ok"
    /\ mainWindow = "window"
    /\ session.cacheInterval # 0
    /\ cacheTimers = {session.cacheInterval}
    /\ session.memoryMonitorInterval = 0
    /\ memoryTimers = {}

(***************************************************************************)
(* C26: a top-level navigation to a URL that does not parse is prevented,  *)
(* and the will-navigate handler does not raise an error.                  *)
(***************************************************************************)
C26_UnparsableNavigationDenied ==
    (call.routine = "willNavigate" /\ ~ParseUrl(call.input).ok)
        => (call.prevented /\ ~call.threw)

(***************************************************************************)
(* C27: when the cleanup started by an uncaught exception has finished and *)
(* the process exits, both periodic tasks are cancelled, every recorded    *)
(* app listener is removed and the tray is destroyed.                      *)
(***************************************************************************)
C27_FatalCleanupReleasesAll ==
    (proc.status = "exited" /\ proc.uncaught > 0) =>
        /\ cacheTimers = {}
        /\ memoryTimers = {}
        /\ proc.subscribed = {}
        /\ proc.tray = "null"

(***************************************************************************)
(* C28: after a processed load-finished signal the loading flag is         *)
(* eventually cleared while the window exists, whether the install call    *)
(* resolves, throws at once, is rejected or never settles.                 *)
(***************************************************************************)
C28_LoadingEventuallyCleared ==
    session.isLoading
        ~> (~session.isLoading \/ mainWindow = "null" \/ proc.status = "exited")

C28_Witness ==
    /\ mainWindow = "window"
    /\ proc.status = "running"
    /\ history.cycles >= 1
    /\ ~session.isLoading
    /\ resetTimers = 0
    /\ HasRequest("install", "load")

(***************************************************************************)
(* C29: a failed install, memory-probe or teardown request (rejected, or   *)
(* thrown at the call) leaves the process running, the window in place and *)
(* the fatal cleanup not started; a failed install or probe changes no     *)
(* periodic task, and every load-finished signal that finds the loading    *)
(* flag clear is processed: both tasks armed, the install called.          *)
(***************************************************************************)
C29_FailuresStayLocal ==
    /\ [][((LoggedReply \/ CloseResume \/ GoneResume) /\ Head(replies).result = "rejected")
            => (proc' = proc /\ mainWindow' = mainWindow)]_vars
    /\ [][(LoggedReply /\ Head(replies).result = "rejected")
            => /\ cacheTimers' = cacheTimers
               /\ memoryTimers' = memoryTimers
               /\ session' = session]_vars
    /\ [][(Len(replies') = Len(replies) + 1)
            => /\ proc' = proc
               /\ mainWindow' = mainWindow
               /\ cacheTimers' = cacheTimers
               /\ memoryTimers' = memoryTimers]_vars
    /\ [][(DidFinishLoad /\ ~session.isLoading)
            => /\ session'.isLoading
               /\ session'.cacheInterval \in cacheTimers'
               /\ session'.memoryMonitorInterval \in memoryTimers'
               /\ resetTimers' = resetTimers + 1
               /\ \/ inflight' = Append(inflight, Request("install", "load"))
                  \/ inflight' = inflight]_vars

C29_Witness ==
    /\ replies # <<>>
    /\ Head(replies) = Reply("load", "rejected")
    /\ proc.status = "running"
    /\ mainWindow = "window"
    /\ cacheTimers # {}
    /\ memoryTimers # {}

(***************************************************************************)
(* C30: a memory probe evaluated in the page tears the enhancements down   *)
(* exactly when the heap usage ratio is above 0.8 and the cleanup function *)
(* exists, and otherwise leaves the page as it is; the tick only sends the *)
(* probe, and no memory-monitor timer is left to tick without a window.    *)
(***************************************************************************)
C30_ProbeTearsDownAboveHighWater ==
    /\ [][\A ratio \in HeapRatios :
            (PageExec(ratio) /\ Head(inflight).script = "probe")
            => /\ replies'[Len(replies')].from = "probe"
               /\ (ratio > 80 /\ page.cleanupFn)
                     => (Absent(page') /\ NothingLive(page'))
               /\ ~(ratio > 80 /\ page.cleanupFn) => page' = page]_vars
    /\ [][MemoryProbeTick
            => /\ mainWindow = "window"
               /\ page' = page
               /\ inflight' = Append(inflight, Request("probe", "probe"))]_vars
    /\ [](mainWindow = "null" => memoryTimers = {})

C30_Witness ==
    /\ replies # <<>>
    /\ Head(replies) = Reply("probe", "resolved")
    /\ page.declared
    /\ Absent(page)
    /\ NothingLive(page)
    /\ ~history.hiddenByClose
    /\ ~willQuit
    /\ renderer = "ok"

(***************************************************************************)
(* C31: a toggle-always-on-top request handled on a live window negates    *)
(* the window's always-on-top state and sends the page exactly the new     *)
(* state, so the last value sent equals the window's state and a second    *)
(* toggle restores the original state; with no live window the request     *)
(* changes nothing and sends nothing.                                      *)
(***************************************************************************)
C31_ToggleNegatesAndNotifies ==
    /\ [][(Toggle /\ mainWindow = "window")
            => /\ session'.alwaysOnTop = ~session.alwaysOnTop
               /\ session'.lastSent = <<session'.alwaysOnTop>>
               /\ toggleAlwaysOnTop(session').alwaysOnTop = session.alwaysOnTop
               /\ session' = [session EXCEPT !.alwaysOnTop = session'.alwaysOnTop,
                                             !.lastSent = session'.lastSent]]_vars
    /\ [][(Toggle /\ mainWindow # "window") => UNCHANGED vars]_vars
    /\ [](session.lastSent # <<>> => session.lastSent = <<session.alwaysOnTop>>)

C31_Witness ==
    /\ mainWindow = "window"
    /\ ~session.alwaysOnTop
    /\ session.lastSent = <<FALSE>>

(***************************************************************************)
(* C32: the handlers app holds are exactly the recorded ones; cleanupApp   *)
(* calls app.off once for each recorded handler, empties the registry and  *)
(* destroys the tray, and a second cleanupApp changes nothing.             *)
(***************************************************************************)
C32_RegistryMatchesSubscriptions ==
    /\ [](proc.subscribed = {proc.appEventListeners[i] :
                                  i \in 1..Len(proc.appEventListeners)})
    /\ [][(proc'.unsubscribed # proc.unsubscribed
                \/ (proc.tray = "tray" /\ proc'.tray = "null")
                \/ Len(proc'.appEventListeners) < Len(proc.appEventListeners))
            => /\ proc'.unsubscribed = proc.unsubscribed \o proc.appEventListeners
               /\ proc'.appEventListeners = <<>>
               /\ proc'.subscribed = {}
               /\ proc'.tray = "null"
               /\ cleanupApp(proc') = proc']_vars
    /\ [](\A i, j \in 1..Len(proc.unsubscribed) :
            proc.unsubscribed[i] = proc.unsubscribed[j] => i = j)
    /\ [](cleanupApp(cleanupApp(proc)) = cleanupApp(proc))

C32_Witness ==
    /\ proc.status = "running"
    /\ Len(proc.unsubscribed) = Len(AppEvents)
    /\ proc.appEventListeners = <<>>
    /\ proc.tray = "null"

(***************************************************************************)
(* C33: a load-finished signal dropped because the loading flag is set     *)
(* leaves the window session as it is: the flag and its timestamp, both    *)
(* interval handles and every timer of the host keep their values.         *)
(***************************************************************************)
C33_DroppedLoadChangesNothing ==
    [][(DidFinishLoad /\ session.isLoading)
         => /\ session' = session
            /\ cacheTimers' = cacheTimers
            /\ memoryTimers' = memoryTimers
            /\ resetTimers' = resetTimers
            /\ inflight' = inflight]_vars

C33_Witness ==
    /\ history.droppedThisLoad
    /\ session.isLoading
    /\ session.loadingStartTime
    /\ session.cacheInterval # 0
    /\ session.memoryMonitorInterval # 0
    /\ resetTimers = 1

(***************************************************************************)
(* C34: the enhancements survive a hide/show cycle: when a window that the *)
(* close handler hid is shown again from the tray, with no reload since,   *)
(* the enhancements that were installed in its page are Installed.         *)
(***************************************************************************)
C34_EnhancementsSurviveHideShow ==
    [][(history.hiddenByClose /\ ~session.visible /\ session'.visible
            /\ mainWindow = "window" /\ page.declared)
         => Installed(page')]_vars

(***************************************************************************)
(* C35: once the teardown script has run in the page, and until the next   *)
(* install, no reload armed by the controller is pending: neither the      *)
(* reload timer of the wheel gesture nor the 500 ms timer armed by a click *)
(* on the refresh button.                                                  *)
(***************************************************************************)
C35_NoReloadPendingAfterTeardown ==
    page.teardownsInRow > 0 =>
        /\ page.timers["indicatorTimeout"] = 0
        /\ page.clickReloads = 0

(***************************************************************************)
(* C36: whenever the close handler resumes after its await, to hide the    *)
(* window and show the notification, the window reference is still present *)
(* and the window not destroyed, whatever happened during the wait.        *)
(***************************************************************************)
C36_CloseResumesOnLiveWindow ==
    [][CloseResume => mainWindow = "window"]_vars

(***************************************************************************)
(* C37: when the render-process-gone handler for 'killed' or 'clean-exit'  *)
(* resumes after its await and a load-finished signal was processed during *)
(* the wait (its install request was sent after the handler's teardown     *)
(* request), the cache-clearing task that load armed stays live and its    *)
(* handle stays recorded: the handler cancels nothing armed after the      *)
(* signal it handles.                                                      *)
(***************************************************************************)
C37_GoneKeepsLaterTasks ==
    [][(/\ GoneResume
        /\ mainWindow = "window"
        /\ session.cacheInterval # 0
        /\ \/ HasRequest("install", "load")
           \/ \E i \in 2..Len(replies) : replies[i].from = "load")
         => /\ session'.cacheInterval = session.cacheInterval
            /\ session.cacheInterval \in cacheTimers']_vars

(***************************************************************************)
(* C38: the load-finished signal of a page is followed by an install       *)
(* request for that page.  Only the handler of such a signal sends install *)
(* requests, so the signal of a document loaded by Refresh is never        *)
(* dropped on account of the loading flag that the preceding load left     *)
(* set.                                                                    *)
(***************************************************************************)
C38_LoadIsFollowedByInstall ==
    [][(DidFinishLoad /\ session.isLoading) => ~history.refreshedWhileLoading]_vars

(***************************************************************************)
(* C39: whenever the tray exists the main window reference is present and  *)
(* the window not destroyed, so that the tray's Show/Hide, Refresh and     *)
(* double-click act on a live window.                                      *)
(***************************************************************************)
C39_TrayImpliesLiveWindow ==
    (proc.status = "running" /\ proc.tray = "tray") => mainWindow = "window"

====
